---- MODULE Spec2Model ----
(***************************************************************************)
(* The extension manager of api/src/extensions.ts as a state machine.      *)
(*                                                                         *)
(* The host runs one cooperative thread.  A process (an initialize() call  *)
(* or a reload job) holds the thread from the completion of one I/O        *)
(* operation it awaits to the start of the next: the continuation of an    *)
(* await on a promise that is already settled runs in the same tick,       *)
(* before any I/O callback, timer or watcher event.  The positions at      *)
(* which a process waits for I/O are the members of YieldPcs.  A step of   *)
(* another process, or a call from the environment (reload(), a watcher    *)
(* event, an emission on the host bus, a firing of a recurring task), can  *)
(* only happen while no process holds the thread.                          *)
(***************************************************************************)
EXTENDS Bags, FiniteSets, Integers, Sequences, TLC

\* ------------------------------------------------------------------------
\* Bounds of the exploration
\* ------------------------------------------------------------------------
MaxReloads == 2        \* reload() calls (watcher events included) in a run
MaxBurst == 3          \* reload() calls in a run of the deployment in which bursts
                       \* are explored: two jobs can wait in the queue at once
MaxInits == 2          \* initialize() calls in a run
MaxStorageRecords == 2 \* records in the list of storages when the host may still
                       \* call registerStorages()

\* ------------------------------------------------------------------------
\* @directus/shared/constants
\* ------------------------------------------------------------------------
APP_SHARED_DEPS == <<"@directus/extensions-sdk", "vue", "vue-router", "vue-i18n", "pinia">>
APP_WITHOUT_HYBRID_EXTENSION_TYPES == <<"interface", "display", "layout", "module", "panel">>
API_WITHOUT_HYBRID_EXTENSION_TYPES == <<"hook", "endpoint", "storage">>
HYBRID_EXTENSION_TYPES == <<"operation">>
APP_EXTENSION_TYPES == APP_WITHOUT_HYBRID_EXTENSION_TYPES \o HYBRID_EXTENSION_TYPES
API_EXTENSION_TYPES == API_WITHOUT_HYBRID_EXTENSION_TYPES \o HYBRID_EXTENSION_TYPES
PACK_EXTENSION_TYPE == "pack"

Range(s) == {s[k] : k \in 1..Len(s)}

RECURSIVE SelectSeqBy(_, _)
\* Array.prototype.filter with the predicate given as the set of accepted indices
SelectSeqBy(s, keep) ==
    IF Len(s) = 0 THEN <<>>
    ELSE LET n == Len(s)
             front == SelectSeqBy(SubSeq(s, 1, n - 1), keep)
         IN IF n \in keep THEN Append(front, s[n]) ELSE front

\* extensions.filter((extension) => extension.type === type)
OfType(exts, type) == SelectSeqBy(exts, {k \in 1..Len(exts) : exts[k].type = type})

\* ------------------------------------------------------------------------
\* The extensions that discovery can find, and what their modules do.
\* An entrypoint is the sequence of its files: one for a simple extension,
\* <<app, api>> for a hybrid one, none for a pack.
\* ------------------------------------------------------------------------
Ext(name, type, path, entrypoint, local) ==
    [name |-> name, type |-> type, path |-> path, entrypoint |-> entrypoint, local |-> local]

HookA == Ext("hook-a", "hook", "extensions/hooks/hook-a", <<"index.js">>, TRUE)
HookB == Ext("hook-b", "hook", "node_modules/hook-b", <<"dist/index.js">>, FALSE)
\* hook-b after its manifest was edited to name another entrypoint
HookB2 == Ext("hook-b", "hook", "node_modules/hook-b", <<"lib/index.js">>, FALSE)
EndpointAlpha == Ext("alpha", "endpoint", "extensions/endpoints/alpha", <<"index.js">>, TRUE)
EndpointBeta == Ext("beta", "endpoint", "extensions/endpoints/beta", <<"index.js">>, TRUE)
StorageS == Ext("s3", "storage", "extensions/storages/s3", <<"index.js">>, TRUE)
OperationOp == Ext("op", "operation", "node_modules/op", <<"app.js", "api.js">>, FALSE)
PackP == Ext("pack", "pack", "node_modules/pack", <<>>, FALSE)
PanelX == Ext("panel-x", "panel", "extensions/panels/panel-x", <<"index.js">>, TRUE)

\* path.resolve(dir, file): the file a directory and a relative name denote
Resolve(dir, file) == <<dir, file>>

ValidCron == "* * * * *"
InvalidCron == "not-a-cron"
\* node-cron validate()
validate(cron) == cron = ValidCron

Call(fn, arg) == [fn |-> fn, arg |-> arg]
\* The calls a hook module's register function makes, in order.
HookScript(hookPath) ==
    IF hookPath[1] = HookA.path
    THEN <<Call("filter", "items.create"), Call("schedule", ValidCron)>>
    ELSE IF hookPath = Resolve(HookB.path, HookB.entrypoint[1])
    THEN <<Call("schedule", InvalidCron), Call("init", "app.before")>>
    ELSE <<Call("action", "items.create"), Call("emitter.onAction", "items.create")>>

\* The modules whose loading can throw, and the modules whose register function
\* can throw, at which of its steps (step n is before its n-th call, or after
\* its last).  The other
\* modules are sound.
RequireCanThrow(file) ==
    file \in {Resolve(HookA.path, "index.js"), Resolve(EndpointAlpha.path, "index.js"),
              Resolve(OperationOp.path, "api.js"), Resolve(StorageS.path, "index.js")}
RegisterCanThrow(file, n) ==
    \/ file = Resolve(HookA.path, "index.js") /\ n >= 3
    \/ file = Resolve(EndpointAlpha.path, "index.js")
\* The app extension types whose compilation can throw
CompileCanThrow(type) == type \in {"interface", "panel", "operation"}

\* The configuration an endpoint module exports: a bare handler or {id, handler}.
EndpointConfigOf(endpointPath) ==
    IF endpointPath[1] = EndpointAlpha.path
    THEN [bare |-> TRUE, id |-> ""]
    ELSE [bare |-> FALSE, id |-> "beta-id"]

\* The built-in operations found under operations/*/index.(js|ts)
InternalOperations ==
    << [name |-> "log", path |-> "operations/log", entrypoint |-> <<"", "index.js">>],
       [name |-> "mail", path |-> "operations/mail", entrypoint |-> <<"", "index.js">>] >>

\* config.id of an operation module
OperationIdOf(operation) == operation.name

\* The deployments explored.  Each has the lists getExtensions() can return in it
\* (package extensions first, local ones second), and serves the app or not.
HookCatalog == { <<>>, <<HookB, HookA>> }
EndpointCatalog == { <<EndpointAlpha, EndpointBeta>>, <<EndpointBeta, EndpointAlpha>> }
PackageCatalog == { <<HookB>>, <<HookB2, StorageS>>, <<PackP, OperationOp>> }
AppCatalog == { <<PanelX>> }
Deployments ==
    { [serveApp |-> FALSE, catalog |-> HookCatalog],
      [serveApp |-> FALSE, catalog |-> EndpointCatalog],
      [serveApp |-> FALSE, catalog |-> PackageCatalog],
      [serveApp |-> TRUE, catalog |-> AppCatalog] }

\* ------------------------------------------------------------------------
\* State
\* ------------------------------------------------------------------------
VARIABLES
    serveApp,        \* env.SERVE_APP
    catalog,         \* the extension lists discovery can return in this deployment
    isLoaded,        \* ExtensionManager.isLoaded
    options,         \* ExtensionManager.options
    extensions,      \* ExtensionManager.extensions
    appExtensions,   \* ExtensionManager.appExtensions: type -> bundle
    apiExtensions,   \* ExtensionManager.apiExtensions
    endpointRouter,  \* ExtensionManager.endpointRouter.stack, as mount segments
    apiEmitter,      \* listeners on ExtensionManager.apiEmitter
    watcher,         \* ExtensionManager.watcher: whether it is set, the package files it
                     \* tracks, and how many watchers chokidar.watch has made
    emitter,         \* the host event bus: a bag of (type, event, handler)
    cronTasks,       \* the running node-cron tasks: a bag
    flowOperations,  \* the flow manager's operations, in the order added
    reloadQueue,     \* ExtensionManager.reloadQueue
    pc,              \* where each process stands
    loc,             \* each process's local variables
    jobsCreated,     \* reload() calls so far
    initCalls,       \* initialize() calls so far
    fired            \* what the latest step did, if it was the firing of a task

vars == <<serveApp, catalog, isLoaded, options, extensions, appExtensions, apiExtensions,
          endpointRouter, apiEmitter, watcher, emitter, cronTasks, flowOperations,
          reloadQueue, pc, loc, jobsCreated, initCalls, fired>>

\* A step that is no firing of a task
Other == fired' = "none"

\* The reload jobs, numbered in the order of the reload() calls.
JobIds == 1..(IF MaxBurst > MaxReloads THEN MaxBurst ELSE MaxReloads)
\* The deployment in which bursts of reload() calls are explored.  What the queue
\* does with a job does not depend on what the job loads.
BurstCatalog == EndpointCatalog
\* The reload() calls explored in the deployment
ReloadCalls == IF catalog = BurstCatalog THEN MaxBurst ELSE MaxReloads
\* The process of the k-th call of initialize(): calls may overlap, a call made
\* while the load of an earlier one is pending starts a load of its own.
InitId(k) == Cardinality(JobIds) + k
InitIds == {InitId(k) : k \in 1..MaxInits}
Procs == JobIds \cup InitIds

\* Positions at an await on I/O: the process has given the thread back.
YieldPcs == {"discover", "globby", "bundle", "compile"}
\* Positions of a process that is not running: initialize() not called or returned,
\* a job waiting in the queue, a job that has returned or has rejected.
RestPcs == {"idle", "queued", "done", "rejected"}
\* Positions inside a tick
SyncPcs == {"unloaded", "registerHooks", "registerHook", "registerEndpoints",
            "registerStorages", "registerOperations", "markLoaded", "loadReturn",
            "jobReturn"}
\* Some process holds the thread.
Busy == \E p \in Procs : pc[p] \in SyncPcs

NoHook == [path |-> <<>>, events |-> <<>>]
NoBundles == <<>>
LocInit == [i |-> 0, j |-> 0, hookHandler |-> NoHook, prevExtensions |-> <<>>,
            discovered |-> "none", entry |-> <<>>, bundles |-> NoBundles, threw |-> {},
            calledLoaded |-> FALSE]
EmptyRegistry == [hooks |-> <<>>, endpoints |-> <<>>, storages |-> <<>>, operations |-> <<>>]

\* defaultOptions, with EXTENSIONS_AUTO_RELOAD unset
defaultOptions == [schedule |-> TRUE, watch |-> FALSE]
\* The options initialize() ends up with, its argument merged over the defaults
InitOptions == {[schedule |-> TRUE, watch |-> TRUE], [schedule |-> FALSE, watch |-> FALSE]}

\* The state after the constructor, in each deployment.
Init ==
    /\ \E d \in Deployments : serveApp = d.serveApp /\ catalog = d.catalog
    /\ isLoaded = FALSE
    /\ options = defaultOptions
    /\ extensions = <<>>
    /\ appExtensions = NoBundles
    /\ apiExtensions = EmptyRegistry
    /\ endpointRouter = <<>>
    /\ apiEmitter = {}
    /\ watcher = [started |-> FALSE, paths |-> {}, instances |-> 0]
    /\ emitter = EmptyBag
    /\ cronTasks = EmptyBag
    /\ flowOperations = <<>>
    /\ reloadQueue = [running |-> FALSE, jobs |-> <<>>]
    /\ pc = [p \in Procs |-> "idle"]
    /\ loc = [p \in Procs |-> LocInit]
    /\ jobsCreated = 0
    /\ initCalls = 0
    /\ fired = "none"

\* ------------------------------------------------------------------------
\* unload()
\* ------------------------------------------------------------------------
Binding(type, name, handler) == [type |-> type, name |-> name, handler |-> handler]

RECURSIVE OffEvents(_, _)
\* The switch of unregisterHooks over one hook's events: the bus registration is
\* removed, the task is stopped.  st = [bus, tasks].
OffEvents(events, st) ==
    IF Len(events) = 0 THEN st
    ELSE LET e == Head(events)
             next == IF e.type = "schedule"
                     THEN [st EXCEPT !.tasks = @ (-) SetToBag({e})]
                     ELSE [st EXCEPT !.bus = @ (-) SetToBag({e})]
         IN OffEvents(Tail(events), next)

RECURSIVE OffHooks(_, _)
\* The outer loop of unregisterHooks over apiExtensions.hooks.
OffHooks(hooks, st) ==
    IF Len(hooks) = 0 THEN st
    ELSE OffHooks(Tail(hooks), OffEvents(Head(hooks).events, st))

unregisterHooks ==
    LET st == OffHooks(apiExtensions.hooks, [bus |-> emitter, tasks |-> cronTasks])
    IN /\ emitter' = st.bus
       /\ cronTasks' = st.tasks

unregisterEndpoints == endpointRouter' = <<>>

unregisterOperations == flowOperations' = <<>>

unload ==
    /\ unregisterHooks
    /\ unregisterEndpoints
    /\ unregisterOperations
    /\ apiExtensions' = EmptyRegistry
    /\ apiEmitter' = {}
    /\ appExtensions' = IF serveApp THEN NoBundles ELSE appExtensions
    /\ isLoaded' = FALSE

\* ------------------------------------------------------------------------
\* The watcher
\* ------------------------------------------------------------------------
toPackageExtensionPaths(exts) ==
    UNION { IF exts[k].local THEN {}
            ELSE IF exts[k].type = PACK_EXTENSION_TYPE
                 THEN {Resolve(exts[k].path, "package.json")}
            ELSE IF exts[k].type \in Range(HYBRID_EXTENSION_TYPES)
                 THEN {Resolve(exts[k].path, exts[k].entrypoint[1]),
                       Resolve(exts[k].path, exts[k].entrypoint[2])}
            ELSE {Resolve(exts[k].path, exts[k].entrypoint[1])}
          : k \in 1..Len(exts) }

\* watcher.add(added paths) and then watcher.unwatch(removed paths)
updateWatchedExtensions(added, removed) ==
    watcher' = IF watcher.started
               THEN [watcher EXCEPT !.paths =
                        (@ \cup toPackageExtensionPaths(added))
                            \ toPackageExtensionPaths(removed)]
               ELSE watcher

initializeWatcher(opts) ==
    IF opts.watch /\ ~watcher.started
    THEN [watcher EXCEPT !.started = TRUE, !.instances = @ + 1]
    ELSE watcher

\* The descriptors of xs whose path no descriptor of ys has.
PathDiff(xs, ys) ==
    SelectSeqBy(xs, {k \in 1..Len(xs) : \A m \in 1..Len(ys) : xs[k].path # ys[m].path})

\* ------------------------------------------------------------------------
\* The job queue (utils/job-queue) and reload()
\* ------------------------------------------------------------------------
\* A reload job that does not test isLoaded
RunJobUntested(id, pcs, locs) ==
    /\ unload
    /\ pc' = [pcs EXCEPT ![id] = "unloaded"]
    /\ loc' = [locs EXCEPT ![id].prevExtensions = extensions]

\* The body of a reload job up to its first await, run by process id; pcs and locs
\* are the pc and loc the step starts from.
RunJob(id, pcs, locs) ==
    IF isLoaded
    THEN /\ unload
         /\ pc' = [pcs EXCEPT ![id] = "unloaded"]
         /\ loc' = [locs EXCEPT ![id].prevExtensions = extensions]
    ELSE /\ pc' = [pcs EXCEPT ![id] = "jobReturn"]
         /\ loc' = locs
         /\ UNCHANGED <<emitter, cronTasks, endpointRouter, flowOperations, apiExtensions,
                        apiEmitter, appExtensions, isLoaded>>

\* JobQueue.enqueue: the job is pushed; a queue that is not running starts running
\* and takes it at once.
Enqueue(id, locs) ==
    IF reloadQueue.running
    THEN /\ reloadQueue' = [reloadQueue EXCEPT !.jobs = Append(@, id)]
         /\ pc' = [pc EXCEPT ![id] = "queued"]
         /\ loc' = locs
         /\ UNCHANGED <<emitter, cronTasks, endpointRouter, flowOperations,
                        apiExtensions, apiEmitter, appExtensions, isLoaded>>
    ELSE /\ reloadQueue' = [reloadQueue EXCEPT !.running = TRUE]
         /\ RunJob(id, pc, locs)

\* reload(): the job is enqueued, whatever isLoaded is; the job tests it.  The
\* value isLoaded had at the call is kept in calledLoaded, which the code never
\* reads.
reload ==
    /\ jobsCreated < ReloadCalls
    /\ jobsCreated' = jobsCreated + 1
    /\ Enqueue(jobsCreated + 1, [loc EXCEPT ![jobsCreated + 1].calledLoaded = isLoaded])
    /\ Other
    /\ UNCHANGED <<serveApp, catalog, options, extensions, watcher, initCalls>>

\* Some other module calls reload().
ReloadCall ==
    /\ ~Busy
    /\ reload

\* The watcher reports an add, change or unlink.
WatcherEvent ==
    /\ ~Busy
    /\ watcher.started
    /\ reload

\* await this.unload() returns in the job: load() is called.
JobLoad(id) ==
    /\ pc[id] = "unloaded"
    /\ pc' = [pc EXCEPT ![id] = "discover"]
    /\ UNCHANGED <<serveApp, catalog, isLoaded, options, extensions, appExtensions,
                   apiExtensions, endpointRouter, apiEmitter, watcher, emitter, cronTasks,
                   flowOperations, reloadQueue, loc, jobsCreated, initCalls>>
    /\ Other

\* await this.load() returns in the job: the watch set is brought up to date.
JobFinish(id) ==
    /\ id \in JobIds
    /\ pc[id] = "loadReturn"
    /\ LET prev == loc[id].prevExtensions
           added == PathDiff(extensions, prev)
           removed == PathDiff(prev, extensions)
       IN updateWatchedExtensions(added, removed)
    /\ pc' = [pc EXCEPT ![id] = "jobReturn"]
    /\ UNCHANGED <<serveApp, catalog, isLoaded, options, extensions, appExtensions,
                   apiExtensions, endpointRouter, apiEmitter, emitter, cronTasks,
                   flowOperations, reloadQueue, loc, jobsCreated, initCalls>>
    /\ Other

\* A queue that runs the job enqueued last
QueueNextLifo(id) ==
    /\ pc[id] = "jobReturn"
    /\ IF Len(reloadQueue.jobs) = 0
       THEN /\ reloadQueue' = [reloadQueue EXCEPT !.running = FALSE]
            /\ pc' = [pc EXCEPT ![id] = "done"]
            /\ loc' = [loc EXCEPT ![id] = LocInit]
            /\ UNCHANGED <<emitter, cronTasks, endpointRouter, flowOperations,
                           apiExtensions, apiEmitter, appExtensions, isLoaded>>
       ELSE /\ reloadQueue' = [reloadQueue EXCEPT !.jobs = SubSeq(@, 1, Len(@) - 1)]
            /\ RunJob(reloadQueue.jobs[Len(reloadQueue.jobs)], [pc EXCEPT ![id] = "done"],
                      [loc EXCEPT ![id] = LocInit])
    /\ UNCHANGED <<serveApp, catalog, options, extensions, watcher, jobsCreated, initCalls>>
    /\ Other

\* JobQueue.run after `await job()`: the next job is shifted and run, or the queue
\* stops running.
QueueNext(id) ==
    /\ pc[id] = "jobReturn"
    /\ IF Len(reloadQueue.jobs) = 0
       THEN /\ reloadQueue' = [reloadQueue EXCEPT !.running = FALSE]
            /\ pc' = [pc EXCEPT ![id] = "done"]
            /\ loc' = [loc EXCEPT ![id] = LocInit]
            /\ UNCHANGED <<emitter, cronTasks, endpointRouter, flowOperations,
                           apiExtensions, apiEmitter, appExtensions, isLoaded>>
       ELSE /\ reloadQueue' = [reloadQueue EXCEPT !.jobs = Tail(@)]
            /\ RunJob(Head(reloadQueue.jobs), [pc EXCEPT ![id] = "done"],
                      [loc EXCEPT ![id] = LocInit])
    /\ UNCHANGED <<serveApp, catalog, options, extensions, watcher, jobsCreated, initCalls>>
    /\ Other

\* ------------------------------------------------------------------------
\* load(), step by step.  frame names what a step of load() never touches.
\* ------------------------------------------------------------------------
frame == <<serveApp, catalog, options, watcher, reloadQueue, jobsCreated, initCalls>>
Framed == UNCHANGED frame /\ Other

Goto(p, where) == pc' = [pc EXCEPT ![p] = where]

\* The try block of load(): ensureExtensionDirs and getExtensions have settled.
\* Whichever of the three awaits throws, the catch only logs.
DiscoveryFails(p) ==
    /\ ~Busy
    /\ pc[p] = "discover"
    /\ extensions' = extensions
    /\ loc' = [loc EXCEPT ![p].discovered = "failed", ![p].i = 1]
    /\ Goto(p, "registerHooks")
    /\ UNCHANGED <<isLoaded, appExtensions, apiExtensions, endpointRouter, apiEmitter,
                   emitter, cronTasks, flowOperations>>
    /\ Framed

DiscoverySucceeds(p) ==
    /\ ~Busy
    /\ pc[p] = "discover"
    /\ \E found \in catalog : extensions' = found
    /\ loc' = [loc EXCEPT ![p].discovered = "ok", ![p].i = 1]
    /\ Goto(p, "registerHooks")
    /\ UNCHANGED <<isLoaded, appExtensions, apiExtensions, endpointRouter, apiEmitter,
                   emitter, cronTasks, flowOperations>>
    /\ Framed

\* --- registerHooks -------------------------------------------------------
Hooks == OfType(extensions, "hook")
HookPath(hook) == Resolve(hook.path, hook.entrypoint[1])

\* The loop of registerHooks is over: registerEndpoints starts.
HooksDone(p) ==
    /\ pc[p] = "registerHooks"
    /\ loc[p].i > Len(Hooks)
    /\ loc' = [loc EXCEPT ![p].i = 1]
    /\ Goto(p, "registerEndpoints")
    /\ UNCHANGED <<isLoaded, extensions, appExtensions, apiExtensions, endpointRouter,
                   apiEmitter, emitter, cronTasks, flowOperations>>
    /\ Framed

\* require(hookPath) or getModuleDefault throws: the catch logs, the loop goes on.
HookRequireThrows(p) ==
    /\ pc[p] = "registerHooks"
    /\ loc[p].i <= Len(Hooks)
    /\ RequireCanThrow(HookPath(Hooks[loc[p].i]))
    /\ loc' = [loc EXCEPT ![p].i = @ + 1]
    /\ pc' = pc
    /\ UNCHANGED <<isLoaded, extensions, appExtensions, apiExtensions, endpointRouter,
                   apiEmitter, emitter, cronTasks, flowOperations>>
    /\ Framed

\* The module is loaded and registerHook is entered with an empty hookHandler.
HookRequire(p) ==
    /\ pc[p] = "registerHooks"
    /\ loc[p].i <= Len(Hooks)
    /\ loc' = [loc EXCEPT ![p].hookHandler =
                              [path |-> HookPath(Hooks[loc[p].i]), events |-> <<>>],
                          ![p].j = 1]
    /\ Goto(p, "registerHook")
    /\ UNCHANGED <<isLoaded, extensions, appExtensions, apiExtensions, endpointRouter,
                   apiEmitter, emitter, cronTasks, flowOperations>>
    /\ Framed

\* The handler a module passes in its n-th call
HandlerOf(hookPath, n) == [file |-> hookPath, n |-> n]

Record(p, event) == loc' = [loc EXCEPT ![p].hookHandler.events = Append(@, event),
                                       ![p].j = @ + 1]
Skip(p) == loc' = [loc EXCEPT ![p].j = @ + 1]

\* registerFunctions.filter / action / init
onBus(p, type, event, handler) ==
    /\ emitter' = emitter (+) SetToBag({Binding(type, event, handler)})
    /\ Record(p, Binding(type, event, handler))
    /\ UNCHANGED <<cronTasks, apiEmitter>>

\* schedule() without the test of validate(cron)
scheduleUnvalidated(p, cron, handler) ==
    /\ cronTasks' = cronTasks (+) SetToBag({Binding("schedule", cron, handler)})
    /\ Record(p, Binding("schedule", cron, handler))
    /\ UNCHANGED <<emitter, apiEmitter>>

\* registerFunctions.schedule
schedule(p, cron, handler) ==
    IF validate(cron)
    THEN /\ cronTasks' = cronTasks (+) SetToBag({Binding("schedule", cron, handler)})
         /\ Record(p, Binding("schedule", cron, handler))
         /\ UNCHANGED <<emitter, apiEmitter>>
    ELSE /\ Skip(p)
         /\ UNCHANGED <<emitter, cronTasks, apiEmitter>>

\* context.emitter.onAction: a listener on the per-cycle emitter
onApiEmitter(p, event, handler) ==
    /\ apiEmitter' = apiEmitter \cup {[name |-> event, handler |-> handler]}
    /\ Skip(p)
    /\ UNCHANGED <<emitter, cronTasks>>

\* The register function makes its next call.
HookCall(p) ==
    /\ pc[p] = "registerHook"
    /\ LET hh == loc[p].hookHandler
           script == HookScript(hh.path)
           n == loc[p].j
       IN /\ n <= Len(script)
          /\ LET c == script[n]
                 h == HandlerOf(hh.path, n)
             IN CASE c.fn \in {"filter", "action", "init"} -> onBus(p, c.fn, c.arg, h)
                  [] c.fn = "schedule" -> schedule(p, c.arg, h)
                  [] OTHER -> onApiEmitter(p, c.arg, h)
    /\ pc' = pc
    /\ UNCHANGED <<isLoaded, extensions, appExtensions, apiExtensions, endpointRouter,
                   flowOperations>>
    /\ Framed

\* The register function throws, before, between or after its calls: hookHandler
\* is dropped, the catch of registerHooks logs, the loop goes on.
HookRegisterThrows(p) ==
    /\ pc[p] = "registerHook"
    /\ RegisterCanThrow(loc[p].hookHandler.path, loc[p].j)
    /\ loc' = [loc EXCEPT ![p].hookHandler = NoHook, ![p].j = 0, ![p].i = @ + 1]
    /\ Goto(p, "registerHooks")
    /\ UNCHANGED <<isLoaded, extensions, appExtensions, apiExtensions, endpointRouter,
                   apiEmitter, emitter, cronTasks, flowOperations>>
    /\ Framed

\* The register function returns: hookHandler is pushed on apiExtensions.hooks.
HookRegistered(p) ==
    /\ pc[p] = "registerHook"
    /\ loc[p].j > Len(HookScript(loc[p].hookHandler.path))
    /\ apiExtensions' = [apiExtensions EXCEPT !.hooks = Append(@, loc[p].hookHandler)]
    /\ loc' = [loc EXCEPT ![p].hookHandler = NoHook, ![p].j = 0, ![p].i = @ + 1]
    /\ Goto(p, "registerHooks")
    /\ UNCHANGED <<isLoaded, extensions, appExtensions, endpointRouter, apiEmitter,
                   emitter, cronTasks, flowOperations>>
    /\ Framed

\* --- registerEndpoints ---------------------------------------------------
Endpoints == OfType(extensions, "endpoint")
EndpointPath(endpoint) == Resolve(endpoint.path, endpoint.entrypoint[1])

\* typeof config === 'function' ? name : config.id
RouteName(config, name) == IF config.bare THEN name ELSE config.id

EndpointsDone(p) ==
    /\ pc[p] = "registerEndpoints"
    /\ loc[p].i > Len(Endpoints)
    /\ loc' = [loc EXCEPT ![p].i = 1]
    /\ Goto(p, "registerStorages")
    /\ UNCHANGED <<isLoaded, extensions, appExtensions, apiExtensions, endpointRouter,
                   apiEmitter, emitter, cronTasks, flowOperations>>
    /\ Framed

\* require(endpointPath) throws, or the export is no configuration
EndpointRequireThrows(p) ==
    /\ pc[p] = "registerEndpoints"
    /\ loc[p].i <= Len(Endpoints)
    /\ RequireCanThrow(EndpointPath(Endpoints[loc[p].i]))
    /\ loc' = [loc EXCEPT ![p].i = @ + 1]
    /\ pc' = pc
    /\ UNCHANGED <<isLoaded, extensions, appExtensions, apiExtensions, endpointRouter,
                   apiEmitter, emitter, cronTasks, flowOperations>>
    /\ Framed

\* router.use(`/${routeName}`, scopedRouter)
Mount(endpoint) ==
    endpointRouter' =
        Append(endpointRouter, RouteName(EndpointConfigOf(EndpointPath(endpoint)), endpoint.name))

\* registerEndpoint mounts the sub-router, then the module's register function throws
EndpointRegisterThrows(p) ==
    /\ pc[p] = "registerEndpoints"
    /\ loc[p].i <= Len(Endpoints)
    /\ RegisterCanThrow(EndpointPath(Endpoints[loc[p].i]), 1)
    /\ Mount(Endpoints[loc[p].i])
    /\ loc' = [loc EXCEPT ![p].i = @ + 1]
    /\ pc' = pc
    /\ UNCHANGED <<isLoaded, extensions, appExtensions, apiExtensions, apiEmitter, emitter,
                   cronTasks, flowOperations>>
    /\ Framed

\* registerEndpoint runs to its end
EndpointRegistered(p) ==
    /\ pc[p] = "registerEndpoints"
    /\ loc[p].i <= Len(Endpoints)
    /\ Mount(Endpoints[loc[p].i])
    /\ apiExtensions' = [apiExtensions EXCEPT !.endpoints =
                            Append(@, [path |-> EndpointPath(Endpoints[loc[p].i])])]
    /\ loc' = [loc EXCEPT ![p].i = @ + 1]
    /\ pc' = pc
    /\ UNCHANGED <<isLoaded, extensions, appExtensions, apiEmitter, emitter, cronTasks,
                   flowOperations>>
    /\ Framed

\* --- registerStorages ----------------------------------------------------
Storages == OfType(extensions, "storage")

\* The loop is over; registerOperations starts and awaits globby.
StoragesDone(p) ==
    /\ pc[p] = "registerStorages"
    /\ loc[p].i > Len(Storages)
    /\ loc' = [loc EXCEPT ![p].i = 0]
    /\ Goto(p, "globby")
    /\ UNCHANGED <<isLoaded, extensions, appExtensions, apiExtensions, endpointRouter,
                   apiEmitter, emitter, cronTasks, flowOperations>>
    /\ Framed

StorageRequireThrows(p) ==
    /\ pc[p] = "registerStorages"
    /\ loc[p].i <= Len(Storages)
    /\ RequireCanThrow(Resolve(Storages[loc[p].i].path, Storages[loc[p].i].entrypoint[1]))
    /\ loc' = [loc EXCEPT ![p].i = @ + 1]
    /\ pc' = pc
    /\ UNCHANGED <<isLoaded, extensions, appExtensions, apiExtensions, endpointRouter,
                   apiEmitter, emitter, cronTasks, flowOperations>>
    /\ Framed

StorageRegistered(p) ==
    /\ pc[p] = "registerStorages"
    /\ loc[p].i <= Len(Storages)
    /\ LET storage == Storages[loc[p].i]
           storagePath == Resolve(storage.path, storage.entrypoint[1])
       IN apiExtensions' = [apiExtensions EXCEPT !.storages =
                               Append(@, [path |-> storagePath, config |-> storage.name])]
    /\ loc' = [loc EXCEPT ![p].i = @ + 1]
    /\ pc' = pc
    /\ UNCHANGED <<isLoaded, extensions, appExtensions, endpointRouter, apiEmitter, emitter,
                   cronTasks, flowOperations>>
    /\ Framed

\* The files of the storage extensions whose require() can throw
StorageThrowers ==
    {f \in {Resolve(Storages[k].path, Storages[k].entrypoint[1]) : k \in 1..Len(Storages)} :
        RequireCanThrow(f)}

RECURSIVE registerStorages(_, _, _)
\* The whole loop of registerStorages over storages, in one tick: a record is
\* pushed for each storage whose require() does not throw.
registerStorages(storages, throwing, records) ==
    IF Len(storages) = 0 THEN records
    ELSE LET storage == Head(storages)
             storagePath == Resolve(storage.path, storage.entrypoint[1])
         IN registerStorages(Tail(storages), throwing,
                IF storagePath \in throwing THEN records
                ELSE Append(records, [path |-> storagePath, config |-> storage.name]))

\* registerStorages() is public: the host calls it on the manager, outside any
\* load.  The storages of this.extensions are pushed onto the list once more.
RegisterStoragesCall ==
    /\ ~Busy
    /\ Len(apiExtensions.storages) < MaxStorageRecords
    /\ \E throwing \in SUBSET StorageThrowers :
          apiExtensions' = [apiExtensions EXCEPT !.storages =
                               registerStorages(Storages, throwing, @)]
    /\ UNCHANGED <<serveApp, catalog, isLoaded, options, extensions, appExtensions,
                   endpointRouter, apiEmitter, watcher, emitter, cronTasks, flowOperations,
                   reloadQueue, pc, loc, jobsCreated, initCalls>>
    /\ Other

\* unregisterStorages() is public too: called by the host, it empties the list of
\* storages and nothing else.
UnregisterStoragesCall ==
    /\ ~Busy
    /\ apiExtensions' = [apiExtensions EXCEPT !.storages = <<>>]
    /\ UNCHANGED <<serveApp, catalog, isLoaded, options, extensions, appExtensions,
                   endpointRouter, apiEmitter, watcher, emitter, cronTasks, flowOperations,
                   reloadQueue, pc, loc, jobsCreated, initCalls>>
    /\ Other

\* --- registerOperations --------------------------------------------------
\* The list with the user-supplied operations put first
OperationsUserFirst ==
    [k \in 1..Len(OfType(extensions, "operation")) |->
        LET o == OfType(extensions, "operation")[k]
        IN [name |-> o.name, path |-> o.path, entrypoint |-> o.entrypoint]]
        \o InternalOperations

Operations ==
    InternalOperations
        \o [k \in 1..Len(OfType(extensions, "operation")) |->
               LET o == OfType(extensions, "operation")[k]
               IN [name |-> o.name, path |-> o.path, entrypoint |-> o.entrypoint]]

\* await globby(...) rejects: no try is around it, in registerOperations or in
\* load(), so load() rejects as it does when the bundler rejects, with isLoaded
\* left false and what was registered left in place.
OperationsListingRejects(p) ==
    /\ ~Busy
    /\ pc[p] = "globby"
    /\ Goto(p, IF p \in JobIds THEN "rejected" ELSE "idle")
    /\ loc' = [loc EXCEPT ![p] = LocInit]
    /\ UNCHANGED <<isLoaded, extensions, appExtensions, apiExtensions, endpointRouter,
                   apiEmitter, emitter, cronTasks, flowOperations>>
    /\ Framed

\* globby has resolved with the directories of the built-in operations.
OperationsListed(p) ==
    /\ ~Busy
    /\ pc[p] = "globby"
    /\ loc' = [loc EXCEPT ![p].i = 1]
    /\ Goto(p, "registerOperations")
    /\ UNCHANGED <<isLoaded, extensions, appExtensions, apiExtensions, endpointRouter,
                   apiEmitter, emitter, cronTasks, flowOperations>>
    /\ Framed

\* The loop is over: registerOperations resolves, and load() goes on to the
\* bundles when the app is served, to marking itself loaded when not.
OperationsDone(p) ==
    /\ pc[p] = "registerOperations"
    /\ loc[p].i > Len(Operations)
    /\ loc' = [loc EXCEPT ![p].i = 0]
    /\ Goto(p, IF serveApp THEN "bundle" ELSE "markLoaded")
    /\ UNCHANGED <<isLoaded, extensions, appExtensions, apiExtensions, endpointRouter,
                   apiEmitter, emitter, cronTasks, flowOperations>>
    /\ Framed

\* require(operationPath) throws, or the export has no id: the catch logs.
OperationRequireThrows(p) ==
    /\ pc[p] = "registerOperations"
    /\ loc[p].i <= Len(Operations)
    /\ RequireCanThrow(Resolve(Operations[loc[p].i].path, Operations[loc[p].i].entrypoint[2]))
    /\ loc' = [loc EXCEPT ![p].i = @ + 1]
    /\ pc' = pc
    /\ UNCHANGED <<isLoaded, extensions, appExtensions, apiExtensions, endpointRouter,
                   apiEmitter, emitter, cronTasks, flowOperations>>
    /\ Framed

\* registerOperation: flowManager.addOperation(config.id, config.handler), then the
\* record is pushed
OperationRegistered(p) ==
    /\ pc[p] = "registerOperations"
    /\ loc[p].i <= Len(Operations)
    /\ LET operation == Operations[loc[p].i]
       IN /\ flowOperations' = Append(flowOperations, OperationIdOf(operation))
          /\ apiExtensions' = [apiExtensions EXCEPT !.operations =
                Append(@, [path |-> Resolve(operation.path, operation.entrypoint[2])])]
    /\ loc' = [loc EXCEPT ![p].i = @ + 1]
    /\ pc' = pc
    /\ UNCHANGED <<isLoaded, extensions, appExtensions, endpointRouter, apiEmitter, emitter,
                   cronTasks>>
    /\ Framed

\* --- generateExtensionBundles ---------------------------------------------
\* generateExtensionsEntry(extensionType, this.extensions), compiled: the bundle of
\* a type is made of the extensions of that type, as this.extensions is when the
\* loop comes to the type
BundleOf(type) ==
    LET of == OfType(extensions, type) IN [k \in 1..Len(of) |-> of[k].name]

\* What compiling a type can do: rollup(), generate() and close() all resolve;
\* rollup() or generate() rejects; close() rejects.
CompileOutcomes(type) ==
    IF CompileCanThrow(type) THEN {"ok", "throws", "closeThrows"} ELSE {"ok"}

\* The loop body assigning bundles[type] before the compilation has succeeded
BundleTypeAssignedFirst(type, outcome, entry, bundles) == (type :> entry) @@ bundles

\* The body of the loop for one type, on the entry made for it.  bundles[type] is
\* assigned once generate() has resolved, before close(); the catch only logs.
BundleType(type, outcome, entry, bundles) ==
    IF outcome = "throws" THEN bundles ELSE (type :> entry) @@ bundles

\* The listings of the app's dist/assets the deployment can have: each shared
\* dependency published as <dep>.<hash>.entry.js, or the chunk of vue missing.
AssetDirs ==
    { {"@directus_extensions-sdk", "vue", "vue-router", "vue-i18n", "pinia"},
      {"@directus_extensions-sdk", "vue-router", "vue-i18n", "pinia"} }

\* dep.replace(/\//g, '_')
Underscored(dep) == IF dep = "@directus/extensions-sdk" THEN "@directus_extensions-sdk" ELSE dep

\* getSharedDepsMapping, once fse.readdir has resolved with appDir: the
\* dependencies whose chunk is found are mapped to its URL; a dependency that is
\* not found is logged and left out.
getSharedDepsMapping(deps, appDir) ==
    LET found == {dep \in Range(deps) : Underscored(dep) \in appDir}
    IN [dep \in found |-> <<"admin", "assets", Underscored(dep)>>]

\* await this.getSharedDepsMapping(APP_SHARED_DEPS) rejects, fse.readdir having
\* rejected: no try is around it, in generateExtensionBundles or in load(), so
\* load() rejects with isLoaded left false.  initialize() rejects to its caller;
\* a reload job rejects into the queue, whose loop ends while it is running.
SharedDepsRejects(p) ==
    /\ ~Busy
    /\ pc[p] = "bundle"
    /\ Goto(p, IF p \in JobIds THEN "rejected" ELSE "idle")
    /\ loc' = [loc EXCEPT ![p] = LocInit]
    /\ UNCHANGED <<isLoaded, extensions, appExtensions, apiExtensions, endpointRouter,
                   apiEmitter, emitter, cronTasks, flowOperations>>
    /\ Framed

\* await this.getSharedDepsMapping(APP_SHARED_DEPS) resolves; the mapping is used
\* for the externals of the compilations only.  The loop is entered: the entry of
\* the first type is made of this.extensions and its compilation awaited.
SharedDepsMapped(p) ==
    /\ ~Busy
    /\ pc[p] = "bundle"
    /\ \E appDir \in AssetDirs :
          DOMAIN getSharedDepsMapping(APP_SHARED_DEPS, appDir) \subseteq Range(APP_SHARED_DEPS)
    /\ loc' = [loc EXCEPT ![p].i = 1, ![p].entry = BundleOf(APP_EXTENSION_TYPES[1])]
    /\ Goto(p, "compile")
    /\ UNCHANGED <<isLoaded, extensions, appExtensions, apiExtensions, endpointRouter,
                   apiEmitter, emitter, cronTasks, flowOperations>>
    /\ Framed

\* The awaits of rollup(), generate() and close() for the type under way have
\* settled.  The loop goes on in the same tick: the entry of the next type is made
\* of this.extensions as it now is, or the bundles are returned to load().
TypeCompiled(p) ==
    /\ ~Busy
    /\ pc[p] = "compile"
    /\ LET k == loc[p].i
           type == APP_EXTENSION_TYPES[k]
       IN \E outcome \in CompileOutcomes(type) :
             LET bundles == BundleType(type, outcome, loc[p].entry, loc[p].bundles)
                 threw == IF outcome = "throws" THEN loc[p].threw \cup {type} ELSE loc[p].threw
             IN IF k < Len(APP_EXTENSION_TYPES)
                THEN /\ loc' = [loc EXCEPT ![p].i = k + 1,
                                           ![p].entry = BundleOf(APP_EXTENSION_TYPES[k + 1]),
                                           ![p].bundles = bundles,
                                           ![p].threw = threw]
                     /\ pc' = pc
                ELSE /\ loc' = [loc EXCEPT ![p].i = 0,
                                           ![p].entry = <<>>,
                                           ![p].bundles = bundles,
                                           ![p].threw = threw]
                     /\ Goto(p, "markLoaded")
    /\ UNCHANGED <<isLoaded, extensions, appExtensions, apiExtensions, endpointRouter,
                   apiEmitter, emitter, cronTasks, flowOperations>>
    /\ Framed

\* The end of load(): the bundles are stored when the app is served, and
\* this.isLoaded = true.
MarkLoaded(p) ==
    /\ pc[p] = "markLoaded"
    /\ appExtensions' = IF serveApp THEN loc[p].bundles ELSE appExtensions
    /\ isLoaded' = TRUE
    /\ loc' = [loc EXCEPT ![p].i = 0, ![p].bundles = NoBundles]
    /\ Goto(p, "loadReturn")
    /\ UNCHANGED <<extensions, apiExtensions, endpointRouter, apiEmitter, emitter,
                   cronTasks, flowOperations>>
    /\ Framed

\* ------------------------------------------------------------------------
\* initialize()
\* ------------------------------------------------------------------------
\* initialize() calling load() whatever isLoaded is
InitializeAlwaysLoads(opts) ==
    /\ ~Busy
    /\ initCalls < MaxInits
    /\ initCalls' = initCalls + 1
    /\ options' = opts
    /\ watcher' = initializeWatcher(opts)
    /\ pc' = [pc EXCEPT ![InitId(initCalls + 1)] = "discover"]
    /\ UNCHANGED <<serveApp, catalog, isLoaded, extensions, appExtensions, apiExtensions,
                   endpointRouter, apiEmitter, emitter, cronTasks, flowOperations,
                   reloadQueue, loc, jobsCreated>>
    /\ Other

\* initialize(options) up to its first await: the options are merged over the
\* defaults, the watcher is started, and load() is called unless already loaded.
\* Nothing but isLoaded is tested: a load that is pending does not hold it back.
Initialize(opts) ==
    /\ ~Busy
    /\ initCalls < MaxInits
    /\ initCalls' = initCalls + 1
    /\ options' = opts
    /\ watcher' = initializeWatcher(opts)
    /\ pc' = [pc EXCEPT ![InitId(initCalls + 1)] = IF isLoaded THEN "idle" ELSE "discover"]
    /\ UNCHANGED <<serveApp, catalog, isLoaded, extensions, appExtensions, apiExtensions,
                   endpointRouter, apiEmitter, emitter, cronTasks, flowOperations,
                   reloadQueue, loc, jobsCreated>>
    /\ Other

\* await this.load() returns in initialize(): the watch set is computed from the
\* loaded extensions.
InitFinish(p) ==
    /\ pc[p] = "loadReturn"
    /\ updateWatchedExtensions(extensions, <<>>)
    /\ pc' = [pc EXCEPT ![p] = "idle"]
    /\ loc' = [loc EXCEPT ![p] = LocInit]
    /\ UNCHANGED <<serveApp, catalog, isLoaded, options, extensions, appExtensions,
                   apiExtensions, endpointRouter, apiEmitter, emitter, cronTasks,
                   flowOperations, reloadQueue, jobsCreated, initCalls>>
    /\ Other

\* ------------------------------------------------------------------------
\* The host around the manager
\* ------------------------------------------------------------------------
Emissions == {<<"filter", "items.create">>, <<"action", "items.create">>,
              <<"init", "app.before">>}

\* What an emission of (type, event) on the host bus invokes: each handler
\* registered for it, once per registration.
Invoked(type, event) ==
    LET hs == {b \in BagToSet(emitter) : b.type = type /\ b.name = event}
    IN [b \in hs |-> CopiesIn(b, emitter)]

\* The host emits an event on its bus.  The handlers run; the manager is not
\* touched.
Emit(type, event) ==
    /\ ~Busy
    /\ UNCHANGED vars

\* The callback schedule() gives node-cron, at a firing of the task: the handler
\* is awaited if options.schedule, and what it throws is caught and logged.
TaskCallback(throws) ==
    IF options.schedule THEN (IF throws THEN "threw" ELSE "ran") ELSE "skipped"

\* A firing whose error reaches the scheduler, which drops the task
FireUncaught(task, throws) ==
    /\ ~Busy
    /\ BagIn(task, cronTasks)
    /\ fired' = TaskCallback(throws)
    /\ cronTasks' = IF fired' = "threw" THEN cronTasks (-) SetToBag({task}) ELSE cronTasks
    /\ UNCHANGED <<serveApp, catalog, isLoaded, options, extensions, appExtensions,
                   apiExtensions, endpointRouter, apiEmitter, watcher, emitter,
                   flowOperations, reloadQueue, pc, loc, jobsCreated, initCalls>>

\* A running task fires.
Fire(task, throws) ==
    /\ ~Busy
    /\ BagIn(task, cronTasks)
    /\ fired' = TaskCallback(throws)
    /\ UNCHANGED <<serveApp, catalog, isLoaded, options, extensions, appExtensions,
                   apiExtensions, endpointRouter, apiEmitter, watcher, emitter, cronTasks,
                   flowOperations, reloadQueue, pc, loc, jobsCreated, initCalls>>

\* ------------------------------------------------------------------------
\* The specification
\* ------------------------------------------------------------------------
LoadStep(p) ==
    \/ DiscoveryFails(p)
    \/ DiscoverySucceeds(p)
    \/ HooksDone(p)
    \/ HookRequireThrows(p)
    \/ HookRequire(p)
    \/ HookCall(p)
    \/ HookRegisterThrows(p)
    \/ HookRegistered(p)
    \/ EndpointsDone(p)
    \/ EndpointRequireThrows(p)
    \/ EndpointRegisterThrows(p)
    \/ EndpointRegistered(p)
    \/ StoragesDone(p)
    \/ StorageRequireThrows(p)
    \/ StorageRegistered(p)
    \/ OperationsListingRejects(p)
    \/ OperationsListed(p)
    \/ OperationsDone(p)
    \/ OperationRequireThrows(p)
    \/ OperationRegistered(p)
    \/ SharedDepsRejects(p)
    \/ SharedDepsMapped(p)
    \/ TypeCompiled(p)
    \/ MarkLoaded(p)

Next ==
    \/ \E p \in Procs : LoadStep(p)
    \/ \E opts \in InitOptions : Initialize(opts)
    \/ \E p \in InitIds : InitFinish(p)
    \/ WatcherEvent
    \/ ReloadCall
    \/ RegisterStoragesCall
    \/ UnregisterStoragesCall
    \/ \E id \in JobIds : JobLoad(id)
    \/ \E id \in JobIds : JobFinish(id)
    \/ \E id \in JobIds : QueueNext(id)
    \/ \E e \in Emissions : Emit(e[1], e[2])
    \/ \E task \in BagToSet(cronTasks), throws \in BOOLEAN : Fire(task, throws)

Spec == Init /\ [][Next]_vars

\* A step of process p: of its load, or of initialize() or the reload job around it
Step(p) ==
    \/ LoadStep(p)
    \/ p \in InitIds /\ InitFinish(p)
    \/ p \in JobIds /\ (JobLoad(p) \/ JobFinish(p) \/ QueueNext(p))

\* The event loop runs a continuation that is ready, and the I/O a process awaits
\* settles: a step of some process is taken if one stays possible.
FairSpec == Spec /\ WF_vars(\E p \in Procs : Step(p))

\* ------------------------------------------------------------------------
\* Properties
\* ------------------------------------------------------------------------
\* A job has started once it has left the queue.
Started(id) == pc[id] \notin {"idle", "queued"}
\* No process is loading, unloading or waiting.
Quiescent == \A p \in Procs : pc[p] \in RestPcs

\* C1: reload jobs are mutually exclusive and FIFO: a job has started only if every
\* job enqueued before it has run its unload/load cycle to the end and returned;
\* the jobs that wait are in the queue in the order of their reload() calls, and
\* they are the jobs called and not started.
C1_ReloadJobsSerialized ==
    /\ \A a, b \in JobIds : (a < b /\ Started(b)) => pc[a] = "done"
    /\ \A k \in 1..(Len(reloadQueue.jobs) - 1) : reloadQueue.jobs[k] < reloadQueue.jobs[k + 1]
    /\ Range(reloadQueue.jobs) = {id \in JobIds : pc[id] = "queued"}

\* C1, its case: reload() is called twice while an earlier job is between its
\* unload and the end of its load; the two later jobs wait in the queue, in the
\* order of their calls.
C1_Witness ==
    /\ pc[1] = "discover"
    /\ ~isLoaded
    /\ pc[2] = "queued"
    /\ pc[3] = "queued"
    /\ reloadQueue.jobs = <<2, 3>>

\* What unregisterHooks would leave of the bus and of the running tasks
AfterUnregister == OffHooks(apiExtensions.hooks, [bus |-> emitter, tasks |-> cronTasks])

\* C2: the bindings in place are exactly those of the extensions that registered:
\* whenever no registration is under way, every handler on the host bus and every
\* running task is recorded in the hooks registry (so that unload removes it), and
\* the router has one mount, and the flow manager one operation, per record.
C2_OnlyRegisteredExtensionsContribute ==
    ~Busy =>
        /\ BagCardinality(AfterUnregister.bus) = 0
        /\ BagCardinality(AfterUnregister.tasks) = 0
        /\ Len(endpointRouter) = Len(apiExtensions.endpoints)
        /\ Len(flowOperations) = Len(apiExtensions.operations)

\* The filter events the hooks registry records
RecordedFilters ==
    UNION { {e \in Range(apiExtensions.hooks[k].events) : e.type = "filter"}
            : k \in 1..Len(apiExtensions.hooks) }

\* C3: an emission invokes a filter handler exactly once if the registry records
\* it, and no other filter handler: none after an unload, none twice after reloads.
C3_FilterFiresOncePerEmission ==
    ~Busy =>
        LET invoked == Invoked("filter", "items.create")
        IN /\ \A h \in DOMAIN invoked : invoked[h] = 1 /\ h \in RecordedFilters
           /\ \A e \in RecordedFilters : e.name = "items.create" => e \in DOMAIN invoked

\* C4: right after an unload the host bus holds no handler a hook registered and
\* no recurring task a hook scheduled is running.
C4_UnloadReversesEveryBinding ==
    \A id \in JobIds :
        pc[id] = "unloaded" => BagCardinality(emitter) = 0 /\ BagCardinality(cronTasks) = 0

\* C5: with the watcher started by the one initialize() call, whenever the system
\* is loaded and at rest the watcher tracks exactly the package files of the
\* current descriptors.
C5_WatchSetIsFresh ==
    (watcher.started /\ initCalls = 1 /\ isLoaded /\ Quiescent)
        => watcher.paths = toPackageExtensionPaths(extensions)

\* A call of schedule() is made by process p in this step.
ScheduleCalled(p) ==
    /\ pc[p] = "registerHook"
    /\ loc[p].j <= Len(HookScript(loc[p].hookHandler.path))
    /\ HookScript(loc[p].hookHandler.path)[loc[p].j].fn = "schedule"
    /\ loc'[p].j = loc[p].j + 1

\* C6: schedule() with "not-a-cron" starts no task and records nothing; with
\* "* * * * *" it starts one task and records that task; and a firing runs the
\* handler if and only if options.schedule holds at the firing.
C6_ScheduleValidatesAndObeysOption ==
    [][ /\ \A p \in Procs :
              ScheduleCalled(p) =>
                 LET cron == HookScript(loc[p].hookHandler.path)[loc[p].j].arg
                     before == loc[p].hookHandler.events
                     after == loc'[p].hookHandler.events
                 IN IF cron = InvalidCron
                    THEN cronTasks' = cronTasks /\ after = before
                    ELSE /\ BagCardinality(cronTasks') = BagCardinality(cronTasks) + 1
                         /\ Len(after) = Len(before) + 1
                         /\ SubSeq(after, 1, Len(before)) = before
                         /\ after[Len(after)].type = "schedule"
                         /\ CopiesIn(after[Len(after)], cronTasks')
                               = CopiesIn(after[Len(after)], cronTasks) + 1
        /\ fired' # "none" => (fired' \in {"ran", "threw"} <=> options.schedule)
      ]_vars

\* C6, its case: both hooks have registered, the one with the invalid expression
\* and the one with the valid one, and the task fired with scheduling off.
C6_Witness ==
    /\ fired = "skipped"
    /\ Len(apiExtensions.hooks) = 2
    /\ BagCardinality(cronTasks) = 1

\* The mount segment of the endpoint extension a registry record stands for
SegmentOf(record) ==
    LET endpoint == CHOOSE e \in {EndpointAlpha, EndpointBeta} : EndpointPath(e) = record.path
    IN RouteName(EndpointConfigOf(record.path), endpoint.name)

\* C7: at the end of a load the router's mounts are those of the endpoints in the
\* registry, one each.
C7_MountsAreTheRegisteredEndpoints ==
    \A p \in Procs :
        pc[p] = "loadReturn" =>
            /\ Range(endpointRouter) = {SegmentOf(r) : r \in Range(apiExtensions.endpoints)}
            /\ Len(endpointRouter) = Len(apiExtensions.endpoints)

\* C8: at the end of a load that serves the app, the bundle map has an entry for
\* each app extension type but those whose compilation threw, and isLoaded holds.
C8_BundlesPerType ==
    \A p \in Procs :
        (serveApp /\ pc[p] = "loadReturn") =>
            /\ DOMAIN appExtensions = Range(APP_EXTENSION_TYPES) \ loc[p].threw
            /\ isLoaded

\* C8, its case: a load ends in which the compilation of two types threw.
C8_Witness ==
    /\ serveApp
    /\ pc[InitId(1)] = "loadReturn"
    /\ loc[InitId(1)].threw = {"interface", "operation"}

\* C9: a load whose discovery failed goes on with an empty descriptor list.
C9_FailedDiscoveryEmptiesTheSet ==
    \A p \in Procs :
        (pc[p] = "registerHooks" /\ loc[p].discovered = "failed") => Len(extensions) = 0

\* C10 as stated: the job of a reload() that was called while isLoaded was false
\* unloads and loads nothing, then or later: when it starts, it changes nothing
\* of the manager and returns.
C10_CallWhileUnloadedIsNoOp ==
    [][ \A id \in JobIds :
           (~Started(id) /\ Started(id)' /\ ~loc'[id].calledLoaded) =>
               /\ pc'[id] = "jobReturn"
               /\ UNCHANGED <<isLoaded, extensions, apiExtensions, appExtensions,
                              watcher, endpointRouter, emitter, cronTasks, flowOperations>>
      ]_vars

\* C10 as amended: isLoaded is tested when the job starts.  A job that starts
\* while it is false changes nothing of the manager and returns; a job that starts
\* while it is true unloads, and goes on to load.
C10_JobTestsFlagAtStart ==
    [][ \A id \in JobIds :
           /\ (~Started(id) /\ Started(id)') =>
                 IF isLoaded
                 THEN pc'[id] = "unloaded" /\ ~isLoaded'
                 ELSE /\ pc'[id] = "jobReturn"
                      /\ UNCHANGED <<isLoaded, extensions, apiExtensions, appExtensions,
                                     watcher, endpointRouter, emitter, cronTasks,
                                     flowOperations>>
           /\ (pc[id] = "unloaded" /\ pc'[id] # "unloaded") => pc'[id] = "discover"
      ]_vars

\* C10, its case: a job started while the first load was under way, and returned.
C10_Witness ==
    /\ pc[InitId(1)] = "discover"
    /\ ~isLoaded
    /\ pc[1] = "jobReturn"

\* The job of process id went through load() (it was no no-op).
Cycled(id) == loc[id].discovered # "none"

\* C11: a reload job that was enqueued is started and returns; it is never left
\* waiting or half-way, whatever failed in its cycle; and a job that returns from
\* a cycle returns with isLoaded true.
C11_ReloadJobCompletes ==
    /\ \A id \in JobIds : (pc[id] # "idle") ~> (pc[id] = "done")
    /\ [](\A id \in JobIds : (pc[id] = "jobReturn" /\ Cycled(id)) => isLoaded)

\* The positions of a load whose registrars or bundler are still at work
InRegistrars == {"registerHooks", "registerHook", "registerEndpoints", "registerStorages",
                 "globby", "registerOperations", "bundle", "compile"}

\* The position that follows each position of a load, in the order of the claim;
\* a load whose listing of operations or whose bundler rejects is left there.
LoadSuccessors(from) ==
    CASE from = "discover" -> {"registerHooks"}
      [] from = "registerHooks" -> {"registerHook", "registerEndpoints"}
      [] from = "registerHook" -> {"registerHooks"}
      [] from = "registerEndpoints" -> {"registerStorages"}
      [] from = "registerStorages" -> {"globby"}
      [] from = "globby" -> {"registerOperations", "rejected", "idle"}
      [] from = "registerOperations" -> IF serveApp THEN {"bundle"} ELSE {"markLoaded"}
      [] from = "bundle" -> {"compile", "rejected", "idle"}
      [] from = "compile" -> {"markLoaded"}
      [] from = "markLoaded" -> {"loadReturn"}
      [] OTHER -> {}

\* A step keeps to the order of load(), and sets isLoaded only at its end.
LoadOrderKept ==
    /\ \A p \in Procs :
          (pc[p] \in InRegistrars \cup {"discover", "markLoaded"} /\ pc'[p] # pc[p])
              => pc'[p] \in LoadSuccessors(pc[p])
    /\ (~isLoaded /\ isLoaded') => \E p \in Procs : pc[p] = "markLoaded" /\ pc'[p] = "loadReturn"

\* C12: every load goes through discovery, hooks, endpoints, storages, operations
\* and (if the app is served) the bundler in this order, isLoaded becomes true
\* only at the end of a load, and it is not true while a registrar or the bundler
\* of a load is at work.
C12_LoadStepsInOrder ==
    [][ /\ LoadOrderKept
        /\ \A p \in Procs : pc'[p] \in InRegistrars => ~isLoaded'
      ]_vars

\* The files records name, in order
PathsOf(records) == [k \in 1..Len(records) |-> records[k].path]
\* No file is named twice.
NoDuplicate(paths) == \A a, b \in 1..Len(paths) : a # b => paths[a] # paths[b]
\* The files a load of the current descriptors can record for a type
FilesOfType(type) ==
    {Resolve(e.path, e.entrypoint[IF type = "operation" THEN 2 ELSE 1]) :
        e \in Range(OfType(extensions, type))}
        \cup (IF type = "operation"
              THEN {Resolve(o.path, o.entrypoint[2]) : o \in Range(InternalOperations)}
              ELSE {})

\* C13: right after an unload the four lists of the registry are empty, and at the
\* end of a load each list holds records of that load only: one at most per
\* extension of the descriptor list, none twice.
C13_RegistryReplacedEachCycle ==
    /\ \A id \in JobIds : pc[id] = "unloaded" => apiExtensions = EmptyRegistry
    /\ \A p \in Procs :
          pc[p] = "loadReturn" =>
             /\ NoDuplicate(PathsOf(apiExtensions.hooks))
             /\ NoDuplicate(PathsOf(apiExtensions.endpoints))
             /\ NoDuplicate(PathsOf(apiExtensions.storages))
             /\ NoDuplicate(PathsOf(apiExtensions.operations))
             /\ Range(PathsOf(apiExtensions.hooks)) \subseteq FilesOfType("hook")
             /\ Range(PathsOf(apiExtensions.endpoints)) \subseteq FilesOfType("endpoint")
             /\ Range(PathsOf(apiExtensions.storages)) \subseteq FilesOfType("storage")
             /\ Range(PathsOf(apiExtensions.operations)) \subseteq FilesOfType("operation")

\* The ids of the built-in operations, in the order they are found
InternalIds == [k \in 1..Len(InternalOperations) |-> OperationIdOf(InternalOperations[k])]

\* C14: when a load registers its first user-supplied operation with the flow
\* manager, the built-in operations are the ones it registered just before; a
\* step that unloads empties the flow manager's operations together with the
\* operations list; and when the load of a reload ends the built-in operations are
\* registered.
C14_BuiltInOperationsFirst ==
    [][ /\ \A p \in Procs :
              ( /\ pc[p] = "registerOperations"
                /\ loc[p].i = Len(InternalOperations) + 1
                /\ Len(flowOperations') = Len(flowOperations) + 1 )
              => LET n == Len(flowOperations)
                 IN /\ n >= Len(InternalIds)
                    /\ SubSeq(flowOperations, n - Len(InternalIds) + 1, n) = InternalIds
                    /\ flowOperations'[n + 1] \notin Range(InternalIds)
        /\ (isLoaded /\ ~isLoaded') => flowOperations' = <<>> /\ apiExtensions'.operations = <<>>
        /\ \A id \in JobIds :
              pc'[id] = "loadReturn" => Range(InternalIds) \subseteq Range(flowOperations')
      ]_vars

\* C14, its case: a reload has ended in which the user-supplied operation was
\* registered after the two built-in ones, which the unload had cleared.
C14_Witness ==
    /\ pc[1] = "jobReturn"
    /\ Cycled(1)
    /\ flowOperations = InternalIds \o <<OperationIdOf(OperationOp)>>

\* C15: an initialize() call made while isLoaded is true starts no load and leaves
\* the descriptor list, the registries, the bundle map and every binding as they
\* are: it sets the options, and starts the watcher if the options enable it and
\* none is set.  A call made while isLoaded is false starts a load.  chokidar
\* makes one watcher at most.
C15_InitializeLoadsOnlyIfUnloaded ==
    [][ /\ (initCalls' = initCalls + 1) =>
              /\ options' \in InitOptions
              /\ watcher'.paths = watcher.paths
              /\ watcher'.started = (watcher.started \/ options'.watch)
              /\ IF isLoaded
                 THEN /\ pc' = pc
                      /\ UNCHANGED <<isLoaded, extensions, apiExtensions, appExtensions,
                                     endpointRouter, apiEmitter, emitter, cronTasks,
                                     flowOperations, reloadQueue, loc>>
                 ELSE pc'[InitId(initCalls')] = "discover"
        /\ watcher'.instances <= 1
      ]_vars

\* C15, its case: with no reload ever requested, a second initialize() was called
\* after the first had loaded package extensions; it started the watcher and
\* loaded nothing.
C15_Witness ==
    /\ initCalls = 2
    /\ jobsCreated = 0
    /\ isLoaded
    /\ \A p \in InitIds : pc[p] = "idle"
    /\ watcher.started
    /\ watcher.paths = {}
    /\ toPackageExtensionPaths(extensions) # {}

\* C16: while the options have watch = false, no event of the watcher can lead to
\* a reload request.
C16_WatcherOnlyWhileEnabled ==
    ~options.watch => ~(ENABLED WatcherEvent)

\* C17: a firing in which the handler throws changes nothing of the manager or of
\* the host: the task goes on running; a task stops running only in an unload; and
\* after a throw every running task can fire again and has its handler invoked
\* (while options.schedule holds).
C17_HandlerErrorIsContained ==
    /\ [][ /\ fired' = "threw" =>
                 /\ options.schedule
                 /\ cronTasks' = cronTasks /\ BagCardinality(cronTasks) > 0
                 /\ UNCHANGED <<isLoaded, options, extensions, appExtensions, apiExtensions,
                                endpointRouter, apiEmitter, watcher, emitter,
                                flowOperations, reloadQueue, pc, loc>>
           /\ \A task \in BagToSet(cronTasks) :
                 CopiesIn(task, cronTasks') < CopiesIn(task, cronTasks)
                     => isLoaded /\ ~isLoaded'
         ]_vars
    /\ [](fired = "threw" =>
             \A task \in BagToSet(cronTasks) :
                 ENABLED (Fire(task, FALSE) /\ fired' = "ran"))

\* C17, its case: the handler of the one running task threw at a firing.
C17_Witness ==
    /\ fired = "threw"
    /\ isLoaded
    /\ BagCardinality(cronTasks) = 1

\* C18: every reload request makes one job of its own: the job is started at once
\* when no job is running, and is appended to the queue when one is; and a job
\* requested while the system was loaded or reloading starts with an unload, so
\* that n such requests give n unload/load cycles (one after another, by C1): a
\* job that waits in the queue comes to its unload.
C18_OneCyclePerRequest ==
    [][ /\ (jobsCreated' = jobsCreated + 1) =>
              LET id == jobsCreated + 1
              IN /\ pc[id] = "idle" /\ pc'[id] # "idle"
                 /\ \A p \in Procs \ {id} : pc'[p] = pc[p]
                 /\ IF reloadQueue.running
                    THEN pc'[id] = "queued" /\ reloadQueue'.jobs = Append(reloadQueue.jobs, id)
                    ELSE /\ reloadQueue'.jobs = reloadQueue.jobs
                         /\ pc'[id] = IF isLoaded THEN "unloaded" ELSE "jobReturn"
        /\ \A id \in JobIds :
              (pc[id] = "queued" /\ Started(id)') => (pc'[id] = "unloaded" /\ isLoaded)
      ]_vars
    /\ \A id \in JobIds : (pc[id] = "queued") ~> (pc[id] = "unloaded")

\* C19: the reload request of an event of the started watcher makes a job that
\* unloads and loads, so that a discovery starts after the event: the job has done
\* its unload, or waits in the queue for its turn to (C18).
C19_NoFileChangeLost ==
    [][ (watcher.started /\ jobsCreated' = jobsCreated + 1)
            => pc'[jobsCreated + 1] \in {"queued", "unloaded"}
      ]_vars

\* The processes inside load()
Loading == {p \in Procs : pc[p] \in InRegistrars \cup {"discover", "markLoaded"}}

\* C20: at most one process is inside load(); no process is inside load() when an
\* unload has just run; and no list of the registry names an extension twice.
C20_LoadsDoNotOverlap ==
    /\ Cardinality(Loading) <= 1
    /\ \A id \in JobIds : pc[id] = "unloaded" => Loading = {}
    /\ NoDuplicate(PathsOf(apiExtensions.hooks))
    /\ NoDuplicate(PathsOf(apiExtensions.endpoints))
    /\ NoDuplicate(PathsOf(apiExtensions.storages))
    /\ NoDuplicate(PathsOf(apiExtensions.operations))

====
